---- MODULE Spec2Model ----
(***************************************************************************)
(* Model of BillingIntegration (src/unnamed/part_000): the periodic        *)
(* settlement run chargeInvoices, the user synchronization                 *)
(* synchronizeUser / forceSynchronizeUser, sendInvoiceNotification,        *)
(* checkStartTransaction, updateTransactionsBillingData and clearTestData. *)
(* Each operation has its own specification; the variables of the other    *)
(* operations stay at rest in it.                                          *)
(*                                                                         *)
(* The billing provider (chargeInvoice, checkConnection, getUser, ...) is  *)
(* abstract in BillingIntegration; every call to it is modelled as a       *)
(* nondeterministic choice over the outcomes a provider can produce.       *)
(* BillingStorage.getInvoices is modelled from its contract: filter on     *)
(* creation window and status set, ascending sort on createdOn, skip and   *)
(* limit.                                                                  *)
(***************************************************************************)
EXTENDS Integers, Sequences, FiniteSets, TLC

VARIABLES
    \* ---- settlement run (chargeInvoices) ----
    invoices,       \* the invoice store, kept in createdOn order; index = invoice id
    invoices0,      \* the store as it was when the run started (history)
    periodicBillingAllowed,  \* settings.billing.periodicBillingAllowed
    forceOperation, \* argument of chargeInvoices
    today,          \* the day moment() falls on during the run
    pc,             \* position of the run
    raisedBy,       \* the call whose error left chargeInvoices, or "none"
    limit,          \* const limit (from preparePeriodicBillingQueryParameters)
    skip,           \* let skip
    page,           \* invoices.result of the current page: snapshots [id, status, createdOn]
    idx,            \* position of the for loop in page
    inSuccess,      \* actionsDone.inSuccess
    inError,        \* actionsDone.inError
    nQueries,       \* number of getInvoices calls made (history)
    skipLog,        \* the value of skip handed to each getInvoices call, in order (history)
    fetchedIds,     \* ids of the invoices returned by the page queries, in order (history)
    nIterations,    \* number of for-loop iterations completed (history)
    settleLog,      \* one record per chargeInvoice call, in call order (history)
    tooNew,         \* ids skipped as created the same day (history)
    compLog,        \* id of the invoice in whose iteration skip went down, once per unit (history)
    \* ---- user synchronization ----
    syncPc,         \* position of synchronizeUser / forceSynchronizeUser
    forceMode,      \* TRUE for forceSynchronizeUser
    userCustomerID, \* user.billingData.customerID as stored (NoCustomer if unset)
    billingUser,    \* let billingUser: customerID of the BillingUser, or Null
    calls,          \* provider operations invoked, with their outcome, in order (history)
    syncLogs,       \* Logging calls made by the wrapper, in order (history)
    \* ---- sendInvoiceNotification ----
    notifPc,        \* position of sendInvoiceNotification
    notifInvoice,   \* argument billingInvoice: [status, amount, currency, payInvoiceUrl]
    tenant,         \* const tenant (result of TenantStorage.getTenant), or Null
    invoiceAmount,  \* const invoiceAmount (the formatted amount), or Null
    notifications,  \* payloads handed to NotificationHandler, in order
    delivery,       \* outcome of the background delivery: "none", "pending", "delivered", "failed"
    notifResult,    \* value the returned promise resolved to, or "none"
    notifLogs,      \* Logging.logError calls made (history)
    \* ---- checkStartTransaction ----
    guardPc,        \* position of checkStartTransaction
    isTransactionBillingActivated,  \* settings.billing.isTransactionBillingActivated
    transaction,    \* argument transaction: [userID, user]
    chargingStation,  \* argument chargingStation, or Null
    siteArea,       \* argument siteArea: [accessControl], or Null
    organizationActive,  \* Utils.isTenantComponentActive(tenant, ORGANIZATION)
    guardResult,    \* "true", "false", "fatal" (BackendError thrown), or "none"
    \* ---- updateTransactionsBillingData ----
    updPc,          \* position of updateTransactionsBillingData
    updInvoice,     \* argument billingInvoice: [status, number, sessions]
    transactions,   \* the transaction store: id -> Null or [stop, lastUpdate]
    taskPc,         \* position of the callback of each session
    taskTransaction,  \* const transaction of the callback of each session
    updLogs,        \* transaction ids of the Logging.logError calls (history)
    \* ---- clearTestData ----
    purgePc,        \* position of clearTestData
    purgeInvoices,  \* the invoice store: id -> Null (deleted) or [liveMode, sessions]
    purgeInvoices0, \* the store as it was when the purge started (history)
    clearedTransactions,  \* transactions whose billing data was reset to UNBILLED
    users,          \* the user store: id -> [status, billingData]
    users0,         \* the store as it was when the purge started (history)
    sweep,          \* the list the current for loop runs over (invoices.result / users)
    sweepIdx,       \* position of the current for loop in sweep
    pendingSessions,  \* sessions of the current invoice whose callback has not finished
    writingSessions,  \* those of them whose callback is at saveTransactionBillingData
    purgeLogs,      \* Logging calls of the sweeps: [level, kind, id] (history)
    \* ---- checkBillTransaction ----
    billCheck,      \* one call: [pc, argument (history), transaction, result]
    \* ---- checkBillingDataThreshold ----
    thresholdCheck  \* one call: [pc, developmentEnv, transaction, outcome]

chargeVars == <<invoices, invoices0, periodicBillingAllowed, forceOperation, today,
                pc, raisedBy, limit, skip, page, idx, inSuccess, inError,
                nQueries, skipLog, fetchedIds, nIterations, settleLog, tooNew, compLog>>
syncVars == <<syncPc, forceMode, userCustomerID, billingUser, calls, syncLogs>>
notifVars == <<notifPc, notifInvoice, tenant, invoiceAmount, notifications, delivery,
               notifResult, notifLogs>>
guardVars == <<guardPc, isTransactionBillingActivated, transaction, chargingStation,
               siteArea, organizationActive, guardResult>>
updVars == <<updPc, updInvoice, transactions, taskPc, taskTransaction, updLogs>>
purgeVars == <<purgePc, purgeInvoices, purgeInvoices0, clearedTransactions, users, users0,
               sweep, sweepIdx, pendingSessions, writingSessions, purgeLogs>>
checkVars == <<billCheck, thresholdCheck>>
otherVars == <<notifVars, guardVars, updVars, purgeVars, checkVars>>
vars == <<chargeVars, syncVars, otherVars>>

----------------------------------------------------------------------------
(* Bounds of the model *)
MaxInvoices == 3
MaxPageSize == 2

(* Calendar: days are numbered from 0, a month has DaysPerMonth days, and an   *)
(* instant is a number of ticks, TicksPerDay to a day: the first tick of a day *)
(* is 00:00:00.000, its last tick is 23:59:59.999.                             *)
DaysPerMonth == 2
TicksPerDay == 2

----------------------------------------------------------------------------
(* BillingInvoiceStatus *)
DRAFT == "draft"
OPEN == "open"
PAID == "paid"
InvoiceStatuses == {DRAFT, OPEN, PAID}

Null == "null"

----------------------------------------------------------------------------
(* Calendar helpers (moment) *)

\* The day an instant falls on
DayOf(t) == t \div TicksPerDay

\* moment(d).startOf('day') and moment(d).endOf('day'), as instants
StartOfDay(d) == d * TicksPerDay
EndOfDay(d) == d * TicksPerDay + (TicksPerDay - 1)

\* moment(d).date(1): the first day of the month of day d
StartOfMonth(d) == (d \div DaysPerMonth) * DaysPerMonth

\* moment(d).date(0): the last day of the previous month
EndOfPreviousMonth(d) == StartOfMonth(d) - 1

\* Mutant: the check of the creation day is left out.
IsSameDay_Never(t, d) == FALSE

\* moment(t).isSame(moment(), 'day'), moment() falling on day d
IsSameDay(t, d) == DayOf(t) = d

\* The days the run can take place on: the first and the last day of month 1
\* (the previous calendar month, month 0, exists).
Todays == {DaysPerMonth, 2 * DaysPerMonth - 1}

\* The creation instants of the invoices of the store, for a run on day d: the
\* last instant of the previous month, 00:00:00.000 of the 1st day of this
\* month and the last instant of day d.
CreatedOnInstants(d) ==
    {EndOfDay(EndOfPreviousMonth(d)), StartOfDay(StartOfMonth(d)), EndOfDay(d)}

\* The values BATCH_PAGE_SIZE is checked for: the smallest and the largest
BatchPageSizes == {1, MaxPageSize}

----------------------------------------------------------------------------
(* preparePeriodicBillingQueryParameters *)

\* const limit
QueryLimits == IF forceOperation THEN {1} ELSE BatchPageSizes

\* filter.startDateTime
StartDateTime ==
    IF forceOperation
    THEN StartOfDay(today)                                   \* today at 00:00:00
    ELSE StartOfDay(StartOfMonth(EndOfPreviousMonth(today))) \* 1st day of the previous month 00:00:00

\* filter.endDateTime
EndDateTime ==
    IF forceOperation
    THEN EndOfDay(today)                  \* today at 23:59:59
    ELSE StartOfDay(StartOfMonth(today))  \* 1st day of this month 00:00:00

\* Mutant: DRAFT invoices are queried whatever the settings say.
InvoiceStatusFilter_AlwaysDraft == {DRAFT, OPEN}

\* filter.invoiceStatus
InvoiceStatusFilter ==
    IF periodicBillingAllowed THEN {DRAFT, OPEN} ELSE {OPEN}

----------------------------------------------------------------------------
(* isInvoiceOutOfPeriodicOperationScope *)

\* Mutant: a DRAFT invoice is in scope whatever the settings say.
IsInvoiceOutOfPeriodicOperationScope_DraftInScope(invoice) ==
    invoice.status \notin {DRAFT, OPEN}

\* Mutant: a PAID invoice is still in scope.
IsInvoiceOutOfPeriodicOperationScope_PaidInScope(invoice) ==
    invoice.status = DRAFT /\ ~periodicBillingAllowed

IsInvoiceOutOfPeriodicOperationScope(invoice) ==
    IF invoice.status = DRAFT /\ periodicBillingAllowed THEN FALSE
    ELSE IF invoice.status = OPEN THEN FALSE
    ELSE TRUE

----------------------------------------------------------------------------
(* BillingStorage.getInvoices(tenant, filter, { sort, limit, skip }) *)

Min(a, b) == IF a < b THEN a ELSE b

\* Utils.checkRecordSkip
CheckRecordSkip(sk) == IF sk < 0 THEN 0 ELSE sk

\* filter.startDateTime <= createdOn <= filter.endDateTime
InWindow(invoice) ==
    /\ StartDateTime <= invoice.createdOn
    /\ invoice.createdOn <= EndDateTime

MatchesFilter(invoice) ==
    /\ InWindow(invoice)
    /\ invoice.status \in InvoiceStatusFilter

RECURSIVE MatchingFrom(_, _)
\* The ids of the invoices of the store that match the filter, from id i on,
\* in createdOn order (sort: { createdOn: 1 }).
MatchingFrom(store, i) ==
    IF i > Len(store) THEN <<>>
    ELSE (IF MatchesFilter(store[i]) THEN <<i>> ELSE <<>>) \o MatchingFrom(store, i + 1)

MatchingIds(store) == MatchingFrom(store, 1)

SortCreatedOn_Descending == 0 - 1

\* sort: { createdOn: 1 }, the direction handed to the query
SortCreatedOn == 1

\* A list of ids in createdOn order, put in the direction asked for
SortedIds(ids, direction) ==
    IF direction = 1 THEN ids
    ELSE [k \in 1..Len(ids) |-> ids[Len(ids) + 1 - k]]

\* invoices.result: the page of at most lim matching invoices after the first sk
GetInvoices(store, lim, sk) ==
    LET m == SortedIds(MatchingIds(store), SortCreatedOn)
        s == CheckRecordSkip(sk)
        n == IF Len(m) > s THEN Min(lim, Len(m) - s) ELSE 0
    IN  [k \in 1..n |-> [id |-> m[s + k],
                         status |-> store[m[s + k]].status,
                         createdOn |-> store[m[s + k]].createdOn]]

----------------------------------------------------------------------------
(* Initial states *)

IsSortedByCreatedOn(store) ==
    \A i \in 1..(Len(store) - 1) : store[i].createdOn <= store[i + 1].createdOn

\* Every store of at most MaxInvoices invoices, for a run on day d
InvoiceStores(d) ==
    LET Inv == [status : InvoiceStatuses, createdOn : CreatedOnInstants(d)]
    IN  {st \in UNION {[1..n -> Inv] : n \in 0..MaxInvoices} : IsSortedByCreatedOn(st)}

\* sendInvoiceNotification at rest
NotifIdle ==
    /\ notifPc = "idle"
    /\ notifInvoice = Null
    /\ tenant = Null
    /\ invoiceAmount = Null
    /\ notifications = <<>>
    /\ delivery = "none"
    /\ notifResult = "none"
    /\ notifLogs = <<>>

\* checkStartTransaction at rest
GuardIdle ==
    /\ guardPc = "idle"
    /\ isTransactionBillingActivated = FALSE
    /\ transaction = Null
    /\ chargingStation = Null
    /\ siteArea = Null
    /\ organizationActive = FALSE
    /\ guardResult = "none"

\* updateTransactionsBillingData at rest
UpdIdle ==
    /\ updPc = "idle"
    /\ updInvoice = Null
    /\ transactions = <<>>
    /\ taskPc = <<>>
    /\ taskTransaction = <<>>
    /\ updLogs = {}

\* clearTestData at rest
PurgeIdle ==
    /\ purgePc = "idle"
    /\ purgeInvoices = <<>>
    /\ purgeInvoices0 = <<>>
    /\ clearedTransactions = {}
    /\ users = <<>>
    /\ users0 = <<>>
    /\ sweep = <<>>
    /\ sweepIdx = 0
    /\ pendingSessions = {}
    /\ writingSessions = {}
    /\ purgeLogs = {}

\* The two transaction checks at rest, for the behaviours of the other operations
ChecksIdle ==
    /\ billCheck = [pc |-> "idle"]
    /\ thresholdCheck = [pc |-> "idle"]

\* The synchronization at rest, for the behaviours of the other operations
SyncIdle ==
    /\ syncPc = "idle"
    /\ forceMode = FALSE
    /\ userCustomerID = Null
    /\ billingUser = Null
    /\ calls = <<>>
    /\ syncLogs = <<>>

InitCharge ==
    /\ today \in Todays
    /\ invoices \in InvoiceStores(today)
    /\ invoices0 = invoices
    /\ periodicBillingAllowed \in BOOLEAN
    /\ forceOperation \in BOOLEAN
    /\ pc = "checkConnection"
    /\ raisedBy = "none"
    /\ limit = 0
    /\ skip = 0
    /\ page = <<>>
    /\ idx = 0
    /\ inSuccess = 0
    /\ inError = 0
    /\ nQueries = 0
    /\ skipLog = <<>>
    /\ fetchedIds = <<>>
    /\ nIterations = 0
    /\ settleLog = <<>>
    /\ tooNew = {}
    /\ compLog = <<>>
    /\ SyncIdle
    /\ NotifIdle /\ GuardIdle /\ UpdIdle /\ PurgeIdle /\ ChecksIdle

----------------------------------------------------------------------------
(* chargeInvoices *)

\* Mutant: checkConnection is not awaited, so its failure does not stop the run.
CheckConnection_NotAwaited ==
    /\ pc = "checkConnection"
    /\ \E l \in QueryLimits : limit' = l
    /\ skip' = 0
    /\ pc' = "getInvoices"
    /\ raisedBy' \in {"none", "checkConnection"}
    /\ UNCHANGED <<invoices, invoices0, periodicBillingAllowed, forceOperation, today,
                   page, idx, inSuccess, inError, nQueries, skipLog, fetchedIds, nIterations,
                   settleLog, tooNew, compLog>>
    /\ UNCHANGED <<syncVars, otherVars>>

\* await this.checkConnection(): returns, and the query parameters are prepared
\* (limit, skip = 0); or raises, and the error leaves chargeInvoices.
CheckConnection ==
    /\ pc = "checkConnection"
    /\ \/ /\ \E l \in QueryLimits : limit' = l
          /\ skip' = 0
          /\ pc' = "getInvoices"
          /\ UNCHANGED raisedBy
       \/ /\ pc' = "raised"
          /\ raisedBy' = "checkConnection"
          /\ UNCHANGED <<limit, skip>>
    /\ UNCHANGED <<invoices, invoices0, periodicBillingAllowed, forceOperation, today,
                   page, idx, inSuccess, inError, nQueries, skipLog, fetchedIds, nIterations,
                   settleLog, tooNew, compLog>>
    /\ UNCHANGED <<syncVars, otherVars>>

SkipAfterPage_NotAdvanced(sk, lim) == sk

SkipAfterPage_ByOne(sk, lim) == sk + 1

\* skip += limit
SkipAfterPage(sk, lim) == sk + lim

\* One turn of while (true) up to the for loop: the page query, the break on an
\* empty page, skip += limit. The query is outside the try block: when it
\* raises, the error leaves chargeInvoices.
GetInvoicesPage ==
    /\ pc = "getInvoices"
    /\ nQueries' = nQueries + 1
    /\ skipLog' = Append(skipLog, skip)
    /\ \/ LET result == GetInvoices(invoices, limit, skip)
          IN  /\ page' = result
              /\ fetchedIds' = fetchedIds \o [k \in 1..Len(result) |-> result[k].id]
              /\ IF result = <<>>
                 THEN /\ pc' = "returned"
                      /\ UNCHANGED <<skip, idx>>
                 ELSE /\ skip' = SkipAfterPage(skip, limit)
                      /\ idx' = 1
                      /\ pc' = "forInvoice"
              /\ UNCHANGED raisedBy
       \/ /\ pc' = "raised"
          /\ raisedBy' = "getInvoices"
          /\ UNCHANGED <<page, fetchedIds, skip, idx>>
    /\ UNCHANGED <<invoices, invoices0, periodicBillingAllowed, forceOperation, today,
                   limit, inSuccess, inError, nIterations, settleLog, tooNew, compLog>>
    /\ UNCHANGED <<syncVars, otherVars>>

\* End of one iteration of the for loop: next invoice of the page, or next page.
NextIteration ==
    /\ nIterations' = nIterations + 1
    /\ idx' = idx + 1
    /\ pc' = IF idx + 1 > Len(page) THEN "getInvoices" ELSE "forInvoice"

\* The position of a status in the life cycle of an invoice
LifeCycleRank(st) == CASE st = DRAFT -> 0 [] st = OPEN -> 1 [] st = PAID -> 2

\* The outcomes of the provider's chargeInvoice(invoice): it returns the invoice
\* with the status it has now, or raises; either way the stored invoice has the
\* status `status` afterwards (its old status when nothing was written). An
\* invoice never goes back in its life cycle.
ChargeInvoiceOutcomes(before) ==
    {o \in [raised : BOOLEAN, status : InvoiceStatuses] :
        LifeCycleRank(o.status) >= LifeCycleRank(before)}

\* Mutant: the compensation is left out.
SkipAfterCharge_NoCompensation(sk, newInvoice) == sk

\* Mutant: the compensation is applied after every successful charge.
SkipAfterCharge_Always(sk, newInvoice) == sk - 1

\* Mutant: the compensation takes two off.
SkipAfterCharge_Twice(sk, newInvoice) ==
    IF IsInvoiceOutOfPeriodicOperationScope(newInvoice) THEN sk - 2 ELSE sk

\* if (this.isInvoiceOutOfPeriodicOperationScope(newInvoice)) { skip--; }
SkipAfterCharge(sk, newInvoice) ==
    IF IsInvoiceOutOfPeriodicOperationScope(newInvoice) THEN sk - 1 ELSE sk

\* Mutant: a failed charge is not counted.
ErrorCount_NotCounted(n) == n

\* catch (error) { actionsDone.inError++; ... }
ErrorCount(n) == n + 1

\* The body of the for loop for invoice = page[idx]
ProcessInvoice ==
    /\ pc = "forInvoice"
    /\ LET invoice == page[idx] IN
       IF IsInvoiceOutOfPeriodicOperationScope(invoice)
       THEN \* continue
            /\ NextIteration
            /\ UNCHANGED <<invoices, skip, inSuccess, inError, settleLog, tooNew>>
       ELSE IF ~forceOperation /\ IsSameDay(invoice.createdOn, today)
       THEN \* too new: counted as a success, not charged
            /\ inSuccess' = inSuccess + 1
            /\ tooNew' = tooNew \cup {invoice.id}
            /\ NextIteration
            /\ UNCHANGED <<invoices, skip, inError, settleLog>>
       ELSE \E outcome \in ChargeInvoiceOutcomes(invoices[invoice.id].status) :
            /\ invoices' = [invoices EXCEPT ![invoice.id].status = outcome.status]
            /\ settleLog' = Append(settleLog,
                                   [id |-> invoice.id,
                                    raised |-> outcome.raised,
                                    before |-> invoices[invoice.id].status,
                                    status |-> outcome.status])
            /\ IF outcome.raised
               THEN \* catch (error)
                    /\ inError' = ErrorCount(inError)
                    /\ UNCHANGED <<skip, inSuccess>>
               ELSE LET newInvoice == [invoice EXCEPT !.status = outcome.status] IN
                    /\ skip' = SkipAfterCharge(skip, newInvoice)
                    /\ inSuccess' = inSuccess + 1
                    /\ UNCHANGED inError
            /\ NextIteration
            /\ UNCHANGED tooNew
    /\ compLog' = compLog \o [k \in 1..(skip - skip') |-> page[idx].id]
    /\ UNCHANGED <<invoices0, periodicBillingAllowed, forceOperation, today, raisedBy,
                   limit, page, nQueries, skipLog, fetchedIds>>
    /\ UNCHANGED <<syncVars, otherVars>>

NextCharge ==
    \/ CheckConnection
    \/ GetInvoicesPage
    \/ ProcessInvoice

ChargeSpec == InitCharge /\ [][NextCharge]_vars

\* The runs of the first day of the month (the day of the monthly periodic
\* operation, on which an invoice of the window can be too new) on a store all of
\* whose invoices were created inside the window of the query: the only invoices
\* a query can return and the run can read or write.
InitChargeInWindow ==
    /\ InitCharge
    /\ today = DaysPerMonth
    /\ \A i \in DOMAIN invoices : InWindow(invoices[i])

\* The run is one asynchronous function: each await (the connection check, a page
\* query, a chargeInvoice call) settles, and the statement after it is executed.
ChargeFairSpec == InitChargeInWindow /\ [][NextCharge]_vars /\ WF_vars(NextCharge)

----------------------------------------------------------------------------
(* synchronizeUser / forceSynchronizeUser / _synchronizeUser *)

\* Provider customer identities
CustomerIDs == {"cus_1", "cus_2"}

\* The settlement run at rest, for the behaviours of the synchronization
ChargeIdle ==
    /\ today = DaysPerMonth
    /\ invoices = <<>>
    /\ invoices0 = <<>>
    /\ periodicBillingAllowed = FALSE
    /\ forceOperation = FALSE
    /\ pc = "idle"
    /\ raisedBy = "none"
    /\ limit = 0
    /\ skip = 0
    /\ page = <<>>
    /\ idx = 0
    /\ inSuccess = 0
    /\ inError = 0
    /\ nQueries = 0
    /\ skipLog = <<>>
    /\ fetchedIds = <<>>
    /\ nIterations = 0
    /\ settleLog = <<>>
    /\ tooNew = {}
    /\ compLog = <<>>

InitSync ==
    /\ syncPc = "start"
    /\ forceMode \in BOOLEAN
    /\ userCustomerID \in CustomerIDs \cup {Null}
    /\ billingUser = Null
    /\ calls = <<>>
    /\ syncLogs = <<>>
    /\ ChargeIdle
    /\ NotifIdle /\ GuardIdle /\ UpdIdle /\ PurgeIdle /\ ChecksIdle

\* The outcomes of a provider operation that yields a BillingUser (createUser,
\* updateUser, repairUser): the customer ID of the BillingUser, or an error.
BillingUserOutcomes ==
    [kind : {"returned"}, customerID : CustomerIDs]
        \cup [kind : {"error"}, customerID : {Null}]

\* The outcomes of getUser: a BillingUser, null (nothing fetched), or a raised
\* error: the provider has no record for the customer ID, or another failure.
GetUserOutcomes ==
    [kind : {"returned"}, customerID : CustomerIDs]
        \cup [kind : {"null", "notFound", "error"}, customerID : {Null}]

\* The outcomes of isUserSynchronized
IsUserSynchronizedOutcomes == {"true", "false", "error"}

Raised(kind) == kind \in {"notFound", "error"}

Call(op, kind) == [op |-> op, outcome |-> kind]

\* Mutant: the branches are swapped.
NormalModeOperation_Swapped(exists) ==
    IF exists THEN "createUser" ELSE "updateUser"

\* Regular situation: if (!exists) createUser else updateUser
NormalModeOperation(exists) ==
    IF ~exists THEN "createUser" ELSE "updateUser"

\* Mutant: a getUser that raises is answered by creating the customer again.
ForceModeOperation_CreateOnError(kind) ==
    IF Raised(kind) \/ kind = "null" THEN "createUser" ELSE "updateUser"

\* Force mode, after getUser: if (!billingUser) createUser else updateUser;
\* catch (error) repairUser
ForceModeOperation(kind) ==
    IF Raised(kind) THEN "repairUser"
    ELSE IF kind = "null" THEN "createUser"
    ELSE "updateUser"

\* Mutant: the wrapper has no try/catch, the error reaches the caller.
SynchronizeUserCatch_Rethrown == "raised"

\* Where an error that leaves _synchronizeUser goes: the catch block of
\* synchronizeUser / forceSynchronizeUser.
SynchronizeUserCatch == "caught"

\* Where an error raised by createUser/updateUser goes: in force mode both calls
\* are inside the try block whose catch calls repairUser; in the regular
\* situation the error leaves _synchronizeUser.
CreateUpdateErrorHandler ==
    IF forceMode THEN "repairUser" ELSE SynchronizeUserCatch

\* const exists = await this.isUserSynchronized(user)
IsUserSynchronized ==
    /\ syncPc = "start"
    /\ ~forceMode
    /\ \E r \in IsUserSynchronizedOutcomes :
        /\ calls' = Append(calls, Call("isUserSynchronized", r))
        /\ syncPc' = IF r = "error" THEN SynchronizeUserCatch ELSE NormalModeOperation(r = "true")
    /\ UNCHANGED <<forceMode, userCustomerID, billingUser, syncLogs>>
    /\ UNCHANGED <<chargeVars, otherVars>>

\* billingUser = await this.getUser(user), inside try
GetUser ==
    /\ syncPc = "start"
    /\ forceMode
    /\ \E r \in GetUserOutcomes :
        /\ calls' = Append(calls, Call("getUser", r.kind))
        /\ syncPc' = ForceModeOperation(r.kind)
    /\ UNCHANGED <<forceMode, userCustomerID, billingUser, syncLogs>>
    /\ UNCHANGED <<chargeVars, otherVars>>

\* billingUser = await this.createUser(user) / this.updateUser(user)
CreateOrUpdateUser ==
    /\ syncPc \in {"createUser", "updateUser"}
    /\ \E r \in BillingUserOutcomes :
        /\ calls' = Append(calls, Call(syncPc, r.kind))
        /\ IF Raised(r.kind)
           THEN /\ syncPc' = CreateUpdateErrorHandler
                /\ UNCHANGED billingUser
           ELSE /\ syncPc' = "synchronized"
                /\ billingUser' = r.customerID
    /\ UNCHANGED <<forceMode, userCustomerID, syncLogs>>
    /\ UNCHANGED <<chargeVars, otherVars>>

\* catch (error) { billingUser = await this.repairUser(user) }
RepairUser ==
    /\ syncPc = "repairUser"
    /\ \E r \in BillingUserOutcomes :
        /\ calls' = Append(calls, Call("repairUser", r.kind))
        /\ IF Raised(r.kind)
           THEN /\ syncPc' = SynchronizeUserCatch
                /\ UNCHANGED billingUser
           ELSE /\ syncPc' = "synchronized"
                /\ billingUser' = r.customerID
    /\ UNCHANGED <<forceMode, userCustomerID, syncLogs>>
    /\ UNCHANGED <<chargeVars, otherVars>>

RepairWarningDue_Never(stored, resulting) == FALSE

\* The condition of the warning of forceSynchronizeUser:
\* user?.billingData?.customerID !== billingUser?.billingData?.customerID
RepairWarningDue(stored, resulting) == stored # resulting

\* The rest of synchronizeUser / forceSynchronizeUser once _synchronizeUser has
\* returned or raised: the logs, and return billingUser.
SynchronizeUserReturn ==
    /\ syncPc \in {"synchronized", "caught"}
    /\ syncLogs' =
        IF syncPc = "caught" THEN <<"error">>
        ELSE IF forceMode /\ RepairWarningDue(userCustomerID, billingUser)
        THEN <<"warning", "info">>
        ELSE <<"info">>
    /\ syncPc' = "returned"
    /\ UNCHANGED <<forceMode, userCustomerID, billingUser, calls>>
    /\ UNCHANGED <<chargeVars, otherVars>>

NextSync ==
    \/ IsUserSynchronized
    \/ GetUser
    \/ CreateOrUpdateUser
    \/ RepairUser
    \/ SynchronizeUserReturn

SyncSpec == InitSync /\ [][NextSync]_vars

----------------------------------------------------------------------------
(* Properties of the settlement run *)

Ids(log) == {log[k].id : k \in DOMAIN log}

\* The invoices passed to chargeInvoice, in call order
SettledIds == [k \in DOMAIN settleLog |-> settleLog[k].id]

\* The invoices the run has visited: charge attempted, or skipped as too new
Visited == Ids(settleLog) \cup tooNew

\* The invoices matching the window and status filter when the run started
Matched0 == {i \in DOMAIN invoices0 : MatchesFilter(invoices0[i])}

\* Some chargeInvoice call raised after it had changed the stored status
DirtyRaise == \E k \in DOMAIN settleLog :
    settleLog[k].raised /\ settleLog[k].status # settleLog[k].before

NoRaise == \A k \in DOMAIN settleLog : ~settleLog[k].raised

\* The chargeInvoice calls that returned an invoice out of periodic scope
OutOfScopeReturns == {k \in DOMAIN settleLog :
    ~settleLog[k].raised /\ IsInvoiceOutOfPeriodicOperationScope(settleLog[k])}

RECURSIVE IdsOf(_, _, _)
\* The ids of the entries of log whose index is in ks, from index k on, in order
IdsOf(log, ks, k) ==
    IF k > Len(log) THEN <<>>
    ELSE (IF k \in ks THEN <<log[k].id>> ELSE <<>>) \o IdsOf(log, ks, k + 1)

\* The non-empty pages fetched so far
NonEmptyPages == IF pc = "returned" THEN nQueries - 1 ELSE nQueries

\* C1: pagination completeness. When the run returns, and no chargeInvoice call
\* raised after changing the stored status, every invoice that matched the
\* window and status filter at the start of the run has been visited (charge
\* attempted, or skipped as too new), whatever the page size and however many
\* invoices of one page left the scope.
C1_PaginationComplete ==
    (pc = "returned" /\ ~DirtyRaise) => Matched0 \subseteq Visited

\* Two invoices of the first page (page size 2) left the scope and the third
\* matching invoice was reached all the same.
C1_Witness ==
    /\ pc = "returned"
    /\ ~DirtyRaise
    /\ limit = 2
    /\ Matched0 = {1, 2, 3}
    /\ compLog = <<1, 2>>
    /\ SettledIds = <<1, 2, 3>>

\* C2: the compensation is applied exactly once per chargeInvoice call that
\* returned an invoice out of periodic scope, and for nothing else: skip is
\* limit times the number of non-empty pages minus the number of those calls,
\* and the iterations in which skip went down are those calls', once each.
C2_CompensationOncePerLeavingInvoice ==
    pc \in {"getInvoices", "forInvoice", "returned"} =>
        /\ limit * NonEmptyPages - skip = Cardinality(OutOfScopeReturns)
        /\ compLog = IdsOf(settleLog, OutOfScopeReturns, 1)

\* A run of three charges: one left the scope, one stayed in scope, one raised.
C2_Witness ==
    /\ pc = "returned"
    /\ Len(settleLog) = 3
    /\ Cardinality(OutOfScopeReturns) = 1
    /\ \E k \in DOMAIN settleLog : settleLog[k].raised
    /\ \E k \in DOMAIN settleLog :
        ~settleLog[k].raised /\ ~IsInvoiceOutOfPeriodicOperationScope(settleLog[k])

\* The invoices of the store, at the start of the run, inside the query window
Window0 == {i \in DOMAIN invoices0 : InWindow(invoices0[i])}

\* The scenario: forced run (page size 1), DRAFT not billed periodically, and
\* the window holds three invoices a < b < c: DRAFT, OPEN, OPEN.
Scenario(a, b, c) ==
    /\ forceOperation
    /\ ~periodicBillingAllowed
    /\ pc # "idle"
    /\ a < b /\ b < c
    /\ Window0 = {a, b, c}
    /\ invoices0[a].status = DRAFT
    /\ invoices0[b].status = OPEN
    /\ invoices0[c].status = OPEN

\* C3: in the scenario, with chargeInvoice never raising, the DRAFT invoice is
\* never passed to chargeInvoice, and the run returns after passing exactly the
\* two OPEN invoices to it, oldest first, with inSuccess = 2 and inError = 0.
C3_ScenarioChargesTheTwoOpen ==
    \A a, b, c \in DOMAIN invoices0 :
        (Scenario(a, b, c) /\ NoRaise) =>
            /\ a \notin Ids(settleLog)
            /\ pc = "returned" =>
                /\ SettledIds = <<b, c>>
                /\ inSuccess = 2
                /\ inError = 0

C3_Witness ==
    /\ Scenario(1, 2, 3)
    /\ NoRaise
    /\ pc = "returned"
    /\ limit = 1
    /\ SettledIds = <<2, 3>>
    /\ invoices[2].status = PAID
    /\ invoices[3].status = PAID

\* C4 as the specification states it: in the scenario the run compensates
\* exactly once, for the DRAFT invoice.
C4_Original_OneCompensationAtDraft ==
    \A a, b, c \in DOMAIN invoices0 :
        (Scenario(a, b, c) /\ NoRaise /\ pc = "returned") => compLog = <<a>>

\* C4 (amended): in the scenario the DRAFT invoice is excluded by the query's
\* status filter: it is never fetched, never reaches the scope check inside the
\* loop, and no compensation is applied for it. The compensation is applied once
\* for each of the two OPEN invoices whose charge returns an out-of-scope
\* status: twice when both end PAID, not at all when both stay OPEN.
C4_ScenarioCompensation ==
    \A a, b, c \in DOMAIN invoices0 :
        Scenario(a, b, c) =>
            /\ \A k \in DOMAIN fetchedIds : fetchedIds[k] # a
            /\ \A k \in DOMAIN compLog : compLog[k] # a
            /\ (NoRaise /\ pc = "returned") =>
                /\ compLog = IdsOf(settleLog, {k \in DOMAIN settleLog : settleLog[k].status # OPEN}, 1)
                /\ (invoices[b].status = PAID /\ invoices[c].status = PAID) => compLog = <<b, c>>
                /\ (invoices[b].status = OPEN /\ invoices[c].status = OPEN) => compLog = <<>>

\* Both OPEN invoices were paid: two compensations, none for the DRAFT one.
C4_Witness ==
    /\ Scenario(1, 2, 3)
    /\ NoRaise
    /\ pc = "returned"
    /\ compLog = <<2, 3>>
    /\ invoices[1].status = DRAFT

\* A step in which chargeInvoice raised
ChargeRaisedStep ==
    /\ Len(settleLog') = Len(settleLog) + 1
    /\ settleLog'[Len(settleLog')].raised

\* C5: a chargeInvoice call that raises adds one to inError, leaves inSuccess
\* alone and does not abort the loops: the for loop moves to the next invoice of
\* the page (or to the next page query), every page is processed to its end
\* before the next query, and the run returns only on an empty page.
C5_FailureIsolation ==
    /\ [][ChargeRaisedStep =>
            /\ inError' = inError + 1
            /\ inSuccess' = inSuccess
            /\ idx' = idx + 1
            /\ page' = page
            /\ pc' = (IF idx < Len(page) THEN "forInvoice" ELSE "getInvoices")]_vars
    /\ [](pc \in {"getInvoices", "returned"} => nIterations = Len(fetchedIds))
    /\ [](pc = "returned" => page = <<>>)
    /\ [](inError = Cardinality({k \in DOMAIN settleLog : settleLog[k].raised}))

\* The first invoice of a page of two raised, the second was charged, and so
\* was the invoice of the next page.
C5_Witness ==
    /\ pc = "returned"
    /\ limit = 2
    /\ Len(settleLog) = 3
    /\ settleLog[1].raised /\ settleLog[1].status = settleLog[1].before
    /\ ~settleLog[2].raised
    /\ ~settleLog[3].raised
    /\ inError = 1
    /\ inSuccess = 2

\* C6 as the specification states it: once checkConnection has succeeded, no
\* error leaves chargeInvoices.
C6_OnlyConnectionCheckRaises ==
    pc = "raised" => raisedBy = "checkConnection"

\* C7: when checkConnection raises, the error leaves chargeInvoices at once:
\* no page has been queried, no invoice charged, nothing counted or written.
C7_ConnectionFailureAbortsBeforeAnyEffect ==
    raisedBy = "checkConnection" =>
        /\ pc = "raised"
        /\ nQueries = 0
        /\ fetchedIds = <<>>
        /\ settleLog = <<>>
        /\ invoices = invoices0
        /\ inSuccess = 0
        /\ inError = 0

\* The connection check failed while invoices were waiting to be charged.
C7_Witness ==
    /\ raisedBy = "checkConnection"
    /\ pc = "raised"
    /\ Cardinality(Matched0) >= 2

----------------------------------------------------------------------------
(* Properties of the synchronization *)

Ops == [k \in DOMAIN calls |-> calls[k].op]

OpSet == {calls[k].op : k \in DOMAIN calls}

\* C8: the regular situation invokes createUser and never updateUser when
\* isUserSynchronized answered false, updateUser and never createUser when it
\* answered true, and never getUser or repairUser.
C8_NormalModeCreateOrUpdate ==
    (~forceMode /\ syncPc # "idle") =>
        /\ "getUser" \notin OpSet
        /\ "repairUser" \notin OpSet
        /\ (calls # <<>>) => calls[1].op = "isUserSynchronized"
        /\ (syncPc = "returned" /\ calls[1].outcome = "false") =>
                Ops = <<"isUserSynchronized", "createUser">>
        /\ (syncPc = "returned" /\ calls[1].outcome = "true") =>
                Ops = <<"isUserSynchronized", "updateUser">>

\* A linked account was updated; (the unlinked case is symmetric).
C8_Witness ==
    /\ ~forceMode
    /\ syncPc = "returned"
    /\ calls = <<Call("isUserSynchronized", "true"), Call("updateUser", "returned")>>
    /\ userCustomerID # Null

\* C9: in force mode, when getUser raises (the provider has no record for the
\* customer, or any other error), repairUser is invoked exactly once and
\* createUser / updateUser are not invoked.
C9_ForceModeRepairsWhenGetFails ==
    (forceMode /\ syncPc = "returned" /\ Raised(calls[1].outcome)) =>
        /\ calls[1].op = "getUser"
        /\ Ops = <<"getUser", "repairUser">>

C9_Witness ==
    /\ forceMode
    /\ syncPc = "returned"
    /\ calls = <<Call("getUser", "notFound"), Call("repairUser", "returned")>>
    /\ userCustomerID # Null
    /\ billingUser # userCustomerID

\* C10 as the specification states it: in force mode, when getUser succeeds,
\* createUser is invoked if nothing was fetched and updateUser otherwise,
\* repairUser is not invoked, and an error of that createUser / updateUser
\* makes the result null.
C10_ForceModeFallsThroughAsNormalMode ==
    (forceMode /\ syncPc = "returned" /\ ~Raised(calls[1].outcome)) =>
        /\ Ops = <<"getUser", IF calls[1].outcome = "null" THEN "createUser" ELSE "updateUser">>
        /\ Raised(calls[2].outcome) => billingUser = Null

\* The outcome of the last provider operation invoked
LastCall == calls[Len(calls)]

\* C11: synchronizeUser and forceSynchronizeUser never raise to their caller;
\* when the last provider operation invoked raised (nothing recovered it), the
\* call returns null and logs the error.
C11_SynchronizeNeverRaises ==
    /\ syncPc # "raised"
    /\ (syncPc = "returned" /\ Raised(LastCall.outcome)) =>
            /\ billingUser = Null
            /\ syncLogs = <<"error">>
    /\ (syncPc = "returned" /\ ~Raised(LastCall.outcome)) => billingUser \in CustomerIDs

\* Force mode: getUser raised, repairUser raised as well, null was returned.
C11_Witness ==
    /\ forceMode
    /\ syncPc = "returned"
    /\ calls = <<Call("getUser", "error"), Call("repairUser", "error")>>
    /\ billingUser = Null

----------------------------------------------------------------------------
(* More properties of the settlement run *)

\* The chargeInvoice calls that returned
Returned == {k \in DOMAIN settleLog : ~settleLog[k].raised}

SeqIds(seq) == {seq[k] : k \in DOMAIN seq}

\* C12: in a run that is not forced, an invoice created on the current day is
\* never passed to chargeInvoice: once its iteration is over it has been
\* counted as a success (inSuccess counts the charges that returned and the
\* invoices skipped as too new, once each) and skip has not gone down for it.
\* In a forced run no invoice is skipped as too new.
C12_TooNewSkipped ==
    /\ forceOperation => tooNew = {}
    /\ ~forceOperation =>
        /\ \A k \in DOMAIN settleLog : DayOf(invoices[settleLog[k].id].createdOn) # today
        /\ pc \in {"getInvoices", "returned"} =>
            \A k \in DOMAIN fetchedIds :
                DayOf(invoices[fetchedIds[k]].createdOn) = today => fetchedIds[k] \in tooNew
    /\ tooNew \cap SeqIds(compLog) = {}
    /\ tooNew \cap Ids(settleLog) = {}
    /\ inSuccess = Cardinality(Returned) + Cardinality(tooNew)

\* On the 1st of the month an invoice created at 00:00:00 is in the window of a
\* normal run: it was skipped as too new, an older invoice was charged.
C12_Witness ==
    /\ ~forceOperation
    /\ pc = "returned"
    /\ tooNew # {}
    /\ settleLog # <<>>
    /\ inSuccess = 2
    /\ inError = 0

\* The statuses isInvoiceOutOfPeriodicOperationScope accepts
StatusesInScope ==
    {st \in InvoiceStatuses : ~IsInvoiceOutOfPeriodicOperationScope([status |-> st])}

\* C13: the status set of the page query is {DRAFT, OPEN} when periodic billing
\* of drafts is allowed and {OPEN} otherwise, it is the set of statuses the
\* scope check of the loop accepts, and no invoice whose status is outside it
\* when it is visited is passed to chargeInvoice or counted as a failure.
C13_PeriodicScope ==
    /\ InvoiceStatusFilter = (IF periodicBillingAllowed THEN {DRAFT, OPEN} ELSE {OPEN})
    /\ InvoiceStatusFilter = StatusesInScope
    /\ \A k \in DOMAIN settleLog : settleLog[k].before \in StatusesInScope
    /\ \A k \in DOMAIN page : page[k].status \in StatusesInScope
    /\ inError = Cardinality(DOMAIN settleLog \ Returned)

\* Drafts are not billed periodically: the DRAFT and PAID invoices of the
\* window were left alone, the OPEN one was charged.
C13_Witness ==
    /\ ~periodicBillingAllowed
    /\ pc = "returned"
    /\ \E i, j, k \in Window0 :
        /\ invoices0[i].status = DRAFT /\ invoices[i].status = DRAFT
        /\ invoices0[j].status = PAID /\ invoices[j].status = PAID
        /\ invoices0[k].status = OPEN
        /\ SettledIds = <<k>>

----------------------------------------------------------------------------
(* sendInvoiceNotification *)

\* billingInvoice.amount, in cents
Amounts == {0, 5, 1050}

\* billingInvoice.currency; Null is a missing currency
Currencies == {"eur", "EUR", "euro", Null}

\* String.prototype.toUpperCase on the currencies of the model
ToUpperCase(c) ==
    CASE c = "eur" -> "EUR"
      [] c = "EUR" -> "EUR"
      [] c = "euro" -> "EURO"

\* The currency codes Intl.NumberFormat accepts: three letters
WellFormedCurrencyCodes == {"EUR"}

\* Line 169 raises: undefined.toUpperCase(), or the RangeError of
\* Intl.NumberFormat for a malformed currency code
FormatRaises(invoice) ==
    \/ invoice.currency = Null
    \/ ToUpperCase(invoice.currency) \notin WellFormedCurrencyCodes

\* new Intl.NumberFormat(locale, { style: 'currency', currency }).format(amount / 100):
\* the amount in units and hundredths, with its currency
FormatInvoiceAmount(invoice) ==
    [units |-> invoice.amount \div 100,
     cents |-> invoice.amount % 100,
     currency |-> ToUpperCase(invoice.currency)]

\* The data handed to NotificationHandler.sendBillingNewInvoiceNotification
NotificationData(invoice, amount) ==
    [payInvoiceUrl |-> IF invoice.status = OPEN THEN invoice.payInvoiceUrl ELSE "",
     invoiceAmount |-> amount,
     invoiceStatus |-> invoice.status]

InitNotif ==
    /\ notifPc = "start"
    /\ notifInvoice \in [status : InvoiceStatuses, amount : Amounts,
                         currency : Currencies, payInvoiceUrl : {"url"}]
    /\ tenant = Null
    /\ invoiceAmount = Null
    /\ notifications = <<>>
    /\ delivery = "none"
    /\ notifResult = "none"
    /\ notifLogs = <<>>
    /\ ChargeIdle /\ SyncIdle /\ GuardIdle /\ UpdIdle /\ PurgeIdle /\ ChecksIdle

\* Line 163: only finalized invoices are notified; otherwise the function ends
\* without a return statement
CheckInvoiceStatus ==
    /\ notifPc = "start"
    /\ IF notifInvoice.status = OPEN \/ notifInvoice.status = PAID
         THEN /\ notifPc' = "getTenant"
              /\ UNCHANGED notifResult
         ELSE /\ notifPc' = "returned"
              /\ notifResult' = "undefined"
    /\ UNCHANGED <<notifInvoice, tenant, invoiceAmount, notifications, delivery, notifLogs>>
    /\ UNCHANGED <<chargeVars, syncVars, guardVars, updVars, purgeVars, checkVars>>

\* Mutant: the catch block reports success.
CatchResult_True == "true"

\* Line 199: the value the catch block returns
CatchResult == "false"

\* Lines 190-200: the error is logged and the function returns; error is the step
\* that raised it (detailedMessages)
SendInvoiceNotificationCatch(error) ==
    /\ notifLogs' = Append(notifLogs, error)
    /\ notifResult' = CatchResult
    /\ notifPc' = "returned"

\* Line 165: await TenantStorage.getTenant
GetTenant ==
    /\ notifPc = "getTenant"
    /\ \E outcome \in {"tenant", Null, "error"} :
        IF outcome = "error"
          THEN /\ SendInvoiceNotificationCatch("getTenant")
               /\ UNCHANGED tenant
          ELSE /\ notifPc' = "format"
               /\ tenant' = outcome
               /\ UNCHANGED <<notifLogs, notifResult>>
    /\ UNCHANGED <<notifInvoice, invoiceAmount, notifications, delivery>>
    /\ UNCHANGED <<chargeVars, syncVars, guardVars, updVars, purgeVars, checkVars>>

\* Lines 167-169
FormatAmount ==
    /\ notifPc = "format"
    /\ IF FormatRaises(notifInvoice)
         THEN /\ SendInvoiceNotificationCatch("format")
              /\ UNCHANGED invoiceAmount
         ELSE /\ notifPc' = "submit"
              /\ invoiceAmount' = FormatInvoiceAmount(notifInvoice)
              /\ UNCHANGED <<notifLogs, notifResult>>
    /\ UNCHANGED <<notifInvoice, tenant, notifications, delivery>>
    /\ UNCHANGED <<chargeVars, syncVars, guardVars, updVars, purgeVars, checkVars>>

\* Lines 171-188: the payload is built (tenant.subdomain raises a TypeError when
\* getTenant found no tenant), the notification is handed over without await,
\* and true is returned
SubmitNotification ==
    /\ notifPc = "submit"
    /\ IF tenant = Null
         THEN /\ SendInvoiceNotificationCatch("payload")
              /\ UNCHANGED <<notifications, delivery>>
         ELSE /\ notifications' = Append(notifications,
                                         NotificationData(notifInvoice, invoiceAmount))
              /\ delivery' = "pending"
              /\ notifResult' = "true"
              /\ notifPc' = "returned"
              /\ UNCHANGED notifLogs
    /\ UNCHANGED <<notifInvoice, tenant, invoiceAmount>>
    /\ UNCHANGED <<chargeVars, syncVars, guardVars, updVars, purgeVars, checkVars>>

\* The promise of NotificationHandler.sendBillingNewInvoiceNotification settles,
\* some time after the submission
DeliverNotification ==
    /\ delivery = "pending"
    /\ delivery' \in {"delivered", "failed"}
    /\ UNCHANGED <<notifPc, notifInvoice, tenant, invoiceAmount, notifications,
                   notifResult, notifLogs>>
    /\ UNCHANGED <<chargeVars, syncVars, guardVars, updVars, purgeVars, checkVars>>

NextNotif ==
    \/ CheckInvoiceStatus
    \/ GetTenant
    \/ FormatAmount
    \/ SubmitNotification
    \/ DeliverNotification

NotifSpec == InitNotif /\ [][NextNotif]_vars

----------------------------------------------------------------------------
(* Properties of sendInvoiceNotification *)

Finalized == notifInvoice.status \in {OPEN, PAID}

\* C14: for every invoice whose status is neither OPEN nor PAID,
\* sendInvoiceNotification dispatches no notification and returns true.
\* Violated: no notification is dispatched, but the function ends without a
\* return statement and its promise resolves to undefined.
C14_NotFinalizedReturnsTrue ==
    (notifPc = "returned" /\ ~Finalized) =>
        /\ notifications = <<>>
        /\ notifResult = "true"

\* C15: for an invoice with status OPEN or PAID, sendInvoiceNotification submits
\* exactly one notification and returns true without waiting for the delivery
\* outcome, which never changes the result; if the tenant lookup or the
\* formatting of the amount raises, no notification is submitted, nothing is
\* propagated and the result is false.
C15_FireAndForget ==
    /\ notifPc # "raised"
    /\ Len(notifications) <= 1
    /\ (notifPc = "returned" /\ Finalized) =>
        \/ /\ notifResult = "true"
           /\ ~FormatRaises(notifInvoice)
           /\ notifications = <<NotificationData(notifInvoice, FormatInvoiceAmount(notifInvoice))>>
           /\ notifLogs = <<>>
        \/ /\ notifResult = "false"
           /\ notifications = <<>>
           /\ delivery = "none"
           /\ Len(notifLogs) = 1
    /\ (notifPc = "returned" /\ Finalized /\ FormatRaises(notifInvoice)) => notifResult = "false"
    /\ (notifPc = "returned" /\ notifLogs = <<"getTenant">>) => notifResult = "false"
    /\ delivery # "none" => (notifPc = "returned" /\ notifResult = "true")

\* The function has returned true for an OPEN invoice of 10.50 EUR while the
\* delivery is still pending
C15_Witness ==
    /\ notifPc = "returned"
    /\ notifInvoice.status = OPEN
    /\ notifInvoice.amount = 1050
    /\ notifResult = "true"
    /\ delivery = "pending"
    /\ notifications[1].invoiceAmount = [units |-> 10, cents |-> 50, currency |-> "EUR"]

----------------------------------------------------------------------------
(* checkStartTransaction *)

\* An object argument or field that is undefined or null
NoObject == <<>>

\* transaction.userID
UserIDs == {Null, "u1"}

\* transaction.user.billingData
BillingDatas == {NoObject} \cup [customerID : {Null, "cus_1"}]

\* transaction.user
TransactionUsers == {NoObject} \cup [freeAccess : BOOLEAN, billingData : BillingDatas]

\* The arguments chargingStation and siteArea
ChargingStations == {Null, "cs1"}
SiteAreas == {NoObject} \cup [accessControl : BOOLEAN]

\* !transaction.user?.billingData?.customerID
HasNoCustomerID(t) ==
    \/ t.user = NoObject
    \/ t.user.billingData = NoObject
    \/ t.user.billingData.customerID = Null

\* Mutant: the charging station is checked before the free access.
CheckStartTransaction_StationFirst(activated, t, station, area, organization) ==
    IF ~activated THEN "false"
    ELSE IF t.userID = Null \/ t.user = NoObject THEN "fatal"
    ELSE IF station = Null THEN "fatal"
    ELSE IF t.user.freeAccess THEN "false"
    ELSE IF organization /\ area = NoObject THEN "fatal"
    ELSE IF organization /\ ~area.accessControl THEN "false"
    ELSE IF HasNoCustomerID(t) THEN "fatal"
    ELSE "true"

\* Mutant: the billing data is checked before the site area.
CheckStartTransaction_BillingDataFirst(activated, t, station, area, organization) ==
    IF ~activated THEN "false"
    ELSE IF t.userID = Null \/ t.user = NoObject THEN "fatal"
    ELSE IF t.user.freeAccess THEN "false"
    ELSE IF station = Null THEN "fatal"
    ELSE IF HasNoCustomerID(t) THEN "fatal"
    ELSE IF organization /\ area = NoObject THEN "fatal"
    ELSE IF organization /\ ~area.accessControl THEN "false"
    ELSE "true"

\* The result of checkStartTransaction: "true", "false", or "fatal" when a
\* BackendError is thrown
CheckStartTransaction(activated, t, station, area, organization) ==
    IF ~activated THEN "false"
    ELSE IF t.userID = Null \/ t.user = NoObject THEN "fatal"
    ELSE IF t.user.freeAccess THEN "false"
    ELSE IF station = Null THEN "fatal"
    ELSE IF organization /\ area = NoObject THEN "fatal"
    ELSE IF organization /\ ~area.accessControl THEN "false"
    ELSE IF HasNoCustomerID(t) THEN "fatal"
    ELSE "true"

InitGuard ==
    /\ guardPc = "start"
    /\ isTransactionBillingActivated \in BOOLEAN
    /\ transaction \in [userID : UserIDs, user : TransactionUsers]
    /\ chargingStation \in ChargingStations
    /\ siteArea \in SiteAreas
    /\ organizationActive \in BOOLEAN
    /\ guardResult = "none"
    /\ ChargeIdle /\ SyncIdle /\ NotifIdle /\ UpdIdle /\ PurgeIdle /\ ChecksIdle

CallCheckStartTransaction ==
    /\ guardPc = "start"
    /\ guardResult' = CheckStartTransaction(isTransactionBillingActivated, transaction,
                                            chargingStation, siteArea, organizationActive)
    /\ guardPc' = IF guardResult' = "fatal" THEN "raised" ELSE "returned"
    /\ UNCHANGED <<isTransactionBillingActivated, transaction, chargingStation, siteArea,
                   organizationActive>>
    /\ UNCHANGED <<chargeVars, syncVars, notifVars, updVars, purgeVars, checkVars>>

NextGuard == CallCheckStartTransaction

GuardSpec == InitGuard /\ [][NextGuard]_vars

----------------------------------------------------------------------------
(* Properties of checkStartTransaction *)

UserPresent == transaction.userID # Null /\ transaction.user # NoObject

\* The ordered decision list, over the eight conditions
DecisionList(activated, userPresent, freeAccess, stationPresent, organization,
             areaPresent, accessControl, customerIDPresent) ==
    CASE ~activated -> "false"
      [] activated /\ ~userPresent -> "fatal"
      [] activated /\ userPresent /\ freeAccess -> "false"
      [] activated /\ userPresent /\ ~freeAccess /\ ~stationPresent -> "fatal"
      [] activated /\ userPresent /\ ~freeAccess /\ stationPresent
            /\ organization /\ ~areaPresent -> "fatal"
      [] activated /\ userPresent /\ ~freeAccess /\ stationPresent
            /\ organization /\ areaPresent /\ ~accessControl -> "false"
      [] activated /\ userPresent /\ ~freeAccess /\ stationPresent
            /\ ~(organization /\ ~(areaPresent /\ accessControl))
            /\ ~customerIDPresent -> "fatal"
      [] OTHER -> "true"

\* C19: checkStartTransaction agrees, for every combination of its eight
\* conditions, with the ordered decision list: billing disabled -> false; user
\* missing -> fatal; free access -> false; station missing -> fatal; organization
\* active and site area missing -> fatal; organization active and site area
\* without access control -> false; customer ID missing -> fatal; otherwise true.
C19_DecisionList ==
    guardPc \in {"returned", "raised"} =>
        /\ guardResult = DecisionList(isTransactionBillingActivated,
                            UserPresent,
                            transaction.user # NoObject /\ transaction.user.freeAccess,
                            chargingStation # Null,
                            organizationActive,
                            siteArea # NoObject,
                            siteArea # NoObject /\ siteArea.accessControl,
                            ~HasNoCustomerID(transaction))
        /\ guardPc = "raised" <=> guardResult = "fatal"

\* The site area without access control decides before the missing customer ID
C19_Witness ==
    /\ guardPc = "returned"
    /\ isTransactionBillingActivated /\ UserPresent /\ ~transaction.user.freeAccess
    /\ chargingStation # Null /\ organizationActive
    /\ siteArea # NoObject /\ ~siteArea.accessControl
    /\ HasNoCustomerID(transaction)
    /\ guardResult = "false"

\* C20: checkStartTransaction returns false and raises no error whenever billing
\* is disabled, whatever the other inputs (a missing account identity or device
\* included), and whenever the account has free access, a missing device or
\* provider linkage included.
C20_DisabledOrFreeAccess ==
    guardPc \in {"returned", "raised"} =>
        /\ ~isTransactionBillingActivated =>
                guardPc = "returned" /\ guardResult = "false"
        /\ (isTransactionBillingActivated /\ UserPresent /\ transaction.user.freeAccess) =>
                guardPc = "returned" /\ guardResult = "false"

\* Free access, with no device and no billing data
C20_Witness ==
    /\ guardPc = "returned"
    /\ isTransactionBillingActivated /\ UserPresent /\ transaction.user.freeAccess
    /\ chargingStation = Null
    /\ transaction.user.billingData = NoObject
    /\ guardResult = "false"

----------------------------------------------------------------------------
(* updateTransactionsBillingData *)

\* Bounds: the transactions of the store and the sessions of an invoice
MaxTransactions == 2
MaxSessions == 2

TransactionIDs == 1 .. MaxTransactions

\* billingInvoice.sessions as the list of session.transactionID
SessionLists == UNION {[1..n -> TransactionIDs] : n \in 0..MaxSessions}

\* transaction.billingData.stop, as left by the billing of the session
InitialStop == [invoiceStatus |-> DRAFT, invoiceNumber |-> Null]

\* What TransactionStorage.getTransaction can find under an id: nothing, a
\* transaction without billing data, one never billed, one billed
StoredTransactions ==
    {NoObject,
     [billingData |-> NoObject],
     [billingData |-> [stop |-> NoObject, lastUpdate |-> "old"]],
     [billingData |-> [stop |-> InitialStop, lastUpdate |-> "old"]]}

\* transaction?.billingData?.stop
HasBillingDataStop(t) ==
    /\ t # NoObject
    /\ t.billingData # NoObject
    /\ t.billingData.stop # NoObject

\* Lines 295-297: the billing data after the three assignments
UpdatedBillingData(billingData, invoice) ==
    [billingData EXCEPT !.stop = [@ EXCEPT !.invoiceStatus = invoice.status,
                                           !.invoiceNumber = invoice.number],
                        !.lastUpdate = "new"]

InitUpd ==
    /\ updPc = "start"
    /\ \E st \in InvoiceStatuses, defined \in BOOLEAN, list \in SessionLists :
        /\ ~defined => list = <<>>
        /\ updInvoice = [status |-> st, number |-> "INV-1",
                         sessionsDefined |-> defined, sessions |-> list]
    /\ transactions \in [TransactionIDs -> StoredTransactions]
    /\ taskPc = <<>>
    /\ taskTransaction = <<>>
    /\ updLogs = {}
    /\ ChargeIdle /\ SyncIdle /\ NotifIdle /\ GuardIdle /\ PurgeIdle /\ ChecksIdle

\* Lines 285-290: an invoice without sessions raises; otherwise map() starts one
\* callback per session, each running up to its call of getTransaction
StartCallbacks ==
    /\ updPc = "start"
    /\ IF ~updInvoice.sessionsDefined
         THEN /\ updPc' = "raised"
              /\ UNCHANGED <<taskPc, taskTransaction>>
         ELSE /\ updPc' = "promiseAll"
              /\ taskPc' = [k \in DOMAIN updInvoice.sessions |-> "getTransaction"]
              /\ taskTransaction' = [k \in DOMAIN updInvoice.sessions |-> NoObject]
    /\ UNCHANGED <<updInvoice, transactions, updLogs>>
    /\ UNCHANGED <<chargeVars, syncVars, notifVars, guardVars, purgeVars, checkVars>>

\* The positions of a callback that has ended: it saved the billing data, found
\* no billingData.stop to update, or caught an error of the store
TaskEnded == {"saved", "skipped", "failed"}

\* Mutant: the error of one callback ends the callbacks still running as well.
TaskCatch_AbortsOthers(pcs, k) ==
    [j \in DOMAIN pcs |-> IF pcs[j] \in TaskEnded THEN pcs[j] ELSE "failed"]

\* Lines 301-311: the error of a callback is logged, and the callback ends
TaskCatch(pcs, k) == [pcs EXCEPT ![k] = "failed"]

\* Lines 292-297 of the callback of session k
GetTransaction(k) ==
    /\ updPc = "promiseAll"
    /\ taskPc[k] = "getTransaction"
    /\ \E outcome \in {"returned", "error"} :
        LET id == updInvoice.sessions[k]
            t == transactions[id]
        IN  IF outcome = "error"
              THEN /\ taskPc' = TaskCatch(taskPc, k)
                   /\ updLogs' = updLogs \cup {id}
                   /\ UNCHANGED taskTransaction
              ELSE IF HasBillingDataStop(t)
                THEN /\ taskPc' = [taskPc EXCEPT ![k] = "saveTransactionBillingData"]
                     /\ taskTransaction' = [taskTransaction EXCEPT ![k] =
                            [billingData |-> UpdatedBillingData(t.billingData, updInvoice)]]
                     /\ UNCHANGED updLogs
                ELSE /\ taskPc' = [taskPc EXCEPT ![k] = "skipped"]
                     /\ UNCHANGED <<taskTransaction, updLogs>>
    /\ UNCHANGED <<updPc, updInvoice, transactions>>
    /\ UNCHANGED <<chargeVars, syncVars, notifVars, guardVars, purgeVars, checkVars>>

\* Line 299 of the callback of session k
SaveTransactionBillingData(k) ==
    /\ updPc = "promiseAll"
    /\ taskPc[k] = "saveTransactionBillingData"
    /\ \E outcome \in {"saved", "error"} :
        LET id == updInvoice.sessions[k]
        IN  IF outcome = "error"
              THEN /\ taskPc' = TaskCatch(taskPc, k)
                   /\ updLogs' = updLogs \cup {id}
                   /\ UNCHANGED transactions
              ELSE /\ taskPc' = [taskPc EXCEPT ![k] = "saved"]
                   /\ transactions' = [transactions EXCEPT ![id] = taskTransaction[k]]
                   /\ UNCHANGED updLogs
    /\ UNCHANGED <<updPc, updInvoice, taskTransaction>>
    /\ UNCHANGED <<chargeVars, syncVars, notifVars, guardVars, purgeVars, checkVars>>

\* Line 289: await Promise.all resolves once every callback has ended
PromiseAllSettles ==
    /\ updPc = "promiseAll"
    /\ \A k \in DOMAIN taskPc : taskPc[k] \in TaskEnded
    /\ updPc' = "returned"
    /\ UNCHANGED <<updInvoice, transactions, taskPc, taskTransaction, updLogs>>
    /\ UNCHANGED <<chargeVars, syncVars, notifVars, guardVars, purgeVars, checkVars>>

NextUpd ==
    \/ StartCallbacks
    \/ \E k \in 1..MaxSessions : k \in DOMAIN taskPc /\ GetTransaction(k)
    \/ \E k \in 1..MaxSessions : k \in DOMAIN taskPc /\ SaveTransactionBillingData(k)
    \/ PromiseAllSettles

UpdSpec == InitUpd /\ [][NextUpd]_vars

----------------------------------------------------------------------------
(* Properties of updateTransactionsBillingData *)

\* The transaction mirrors the status and the number of the invoice
Mirrors(t, invoice) ==
    /\ t.billingData.stop.invoiceStatus = invoice.status
    /\ t.billingData.stop.invoiceNumber = invoice.number

\* C18: once updateTransactionsBillingData(invoice) has returned, every transaction
\* referenced by a session of the invoice has billingData.stop.invoiceStatus equal
\* to the status of the invoice and invoiceNumber equal to its number, whatever
\* the outcome of the reads and writes of the store. Stated here for the
\* transactions that have a billingData.stop to mirror; violated when a read or a
\* write of the store fails: the error is logged and the function returns.
C18_MirrorAfterUpdate ==
    updPc = "returned" =>
        \A k \in DOMAIN updInvoice.sessions :
            LET t == transactions[updInvoice.sessions[k]]
            IN  HasBillingDataStop(t) => Mirrors(t, updInvoice)

----------------------------------------------------------------------------
(* clearTestData *)

\* Bound: the records of the two stores, invoices and users together
MaxRecords == 3

\* UserStatus
ACTIVE == "active"
BLOCKED == "blocked"
UserStatuses == {ACTIVE, BLOCKED}

\* The sessions of invoice i, as the list of session.transactionID: a transaction
\* belongs to one invoice, and an invoice has one or two sessions
SessionsOf(i) == IF i % 2 = 1 THEN <<2 * i - 1, 2 * i>> ELSE <<2 * i - 1>>

\* user.billingData: none, a test link, a live link
UserBillingDatas == {NoObject} \cup [liveMode : BOOLEAN]

\* The stores the purge can start from
InvoiceRecords(n) ==
    {[i \in 1..n |-> [liveMode |-> live[i], sessions |-> SessionsOf(i)]] :
        live \in [1..n -> BOOLEAN]}
UserRecords(n) == [1..n -> [status : UserStatuses, billingData : UserBillingDatas]]

\* The ids of a store, in ascending order
IdsOfStore(store) == [i \in 1..Len(store) |-> i]

\* BillingStorage.getInvoices(tenant, { liveMode: false }, DB_PARAMS_MAX_LIMIT); a
\* store that does not honour the filter also returns the live invoices
GetTestInvoices(store, honoured) ==
    SelectSeq(IdsOfStore(store), LAMBDA i : store[i] # NoObject /\ (~store[i].liveMode \/ ~honoured))

\* UserStorage.getUsers(tenant, { statuses: [ACTIVE], withTestBillingData: true },
\* DB_PARAMS_MAX_LIMIT); a store that does not honour withTestBillingData also
\* returns the users with a live link
GetUsers(store, statuses, honoured) ==
    SelectSeq(IdsOfStore(store),
              LAMBDA u : /\ store[u].status \in statuses
                         /\ store[u].billingData # NoObject
                         /\ (~store[u].billingData.liveMode \/ ~honoured))

\* Line 511: statuses: [UserStatus.ACTIVE]
TestUsersStatuses == {ACTIVE}

\* users.count for an answer of n users: the number of users returned, or a count
\* that is not positive (count and result come from two queries of the store)
UserCounts(n) == {n, 0, -1}

\* Lines 514-517: if (users.count > 0) return users.result; return [];
UsersWithTestBillingData(response) ==
    IF response.count > 0 THEN response.result ELSE <<>>

\* A Logging call of the sweeps: cause is "refused" for the BackendError of a
\* live record, "failed" for an error of the storage (detailedMessages)
PurgeLog(level, about, id, cause) ==
    [level |-> level, about |-> about, id |-> id, cause |-> cause]

InitPurge ==
    /\ purgePc = "getInvoices"
    /\ \E n \in 0..MaxRecords, u \in 0..MaxRecords :
        /\ n + u <= MaxRecords
        /\ purgeInvoices \in InvoiceRecords(n)
        /\ users \in UserRecords(u)
    /\ purgeInvoices0 = purgeInvoices
    /\ users0 = users
    /\ clearedTransactions = {}
    /\ sweep = <<>>
    /\ sweepIdx = 0
    /\ pendingSessions = {}
    /\ writingSessions = {}
    /\ purgeLogs = {}
    /\ ChargeIdle /\ SyncIdle /\ NotifIdle /\ GuardIdle /\ UpdIdle /\ ChecksIdle

\* Line 412: the query of clearAllInvoiceTestData, outside any try
GetInvoicesToClear ==
    /\ purgePc = "getInvoices"
    /\ \E outcome \in {"honoured", "notHonoured", "error"} :
        IF outcome = "error"
          THEN /\ purgePc' = "raised"
               /\ UNCHANGED <<sweep, sweepIdx>>
          ELSE /\ purgePc' = "forInvoice"
               /\ sweep' = GetTestInvoices(purgeInvoices, outcome = "honoured")
               /\ sweepIdx' = 1
    /\ UNCHANGED <<purgeInvoices, purgeInvoices0, clearedTransactions, users, users0,
                   pendingSessions, writingSessions, purgeLogs>>
    /\ UNCHANGED <<chargeVars, syncVars, notifVars, guardVars, updVars, checkVars>>

\* Mutant: the guard of clearInvoiceTestData is left out.
IsLiveInvoice_Never(invoice) == FALSE

\* Line 438: billingInvoice.liveMode
IsLiveInvoice(invoice) == invoice.liveMode

\* Lines 414-416, 438-446 and 424-433: the next invoice of the sweep; a live
\* invoice raises, which the sweep logs; else one callback per session starts
ClearInvoiceTestData ==
    /\ purgePc = "forInvoice"
    /\ sweepIdx <= Len(sweep)
    /\ LET id == sweep[sweepIdx]
       IN  IF IsLiveInvoice(purgeInvoices[id])
             THEN /\ purgeLogs' = purgeLogs \cup {PurgeLog("error", "invoice", id, "refused")}
                  /\ sweepIdx' = sweepIdx + 1
                  /\ UNCHANGED <<purgePc, pendingSessions, writingSessions>>
             ELSE /\ purgePc' = "clearTransactions"
                  /\ pendingSessions' = DOMAIN purgeInvoices[id].sessions
                  /\ writingSessions' = {}
                  /\ UNCHANGED <<purgeLogs, sweepIdx>>
    /\ UNCHANGED <<purgeInvoices, purgeInvoices0, clearedTransactions, users, users0, sweep>>
    /\ UNCHANGED <<chargeVars, syncVars, notifVars, guardVars, updVars, checkVars>>

\* Lines 451-467 of the callback of session k of the current invoice: it awaits
\* getTransaction, then builds the reset billing data; an error (of the read, or
\* of the assignment to a transaction that was not found) is logged by the catch
\* of the callback, which ends
ClearGetTransaction(k) ==
    /\ purgePc = "clearTransactions"
    /\ k \in pendingSessions \ writingSessions
    /\ \E outcome \in {"returned", "error"} :
        LET id == purgeInvoices[sweep[sweepIdx]].sessions[k]
        IN  IF outcome = "returned"
              THEN /\ writingSessions' = writingSessions \cup {k}
                   /\ UNCHANGED <<pendingSessions, purgeLogs>>
              ELSE /\ purgeLogs' = purgeLogs \cup {PurgeLog("error", "transaction", id, "failed")}
                   /\ pendingSessions' = pendingSessions \ {k}
                   /\ UNCHANGED writingSessions
    /\ UNCHANGED <<purgePc, purgeInvoices, purgeInvoices0, clearedTransactions, users, users0,
                   sweep, sweepIdx>>
    /\ UNCHANGED <<chargeVars, syncVars, notifVars, guardVars, updVars, checkVars>>

\* Lines 468-477 of the callback of session k: it awaits
\* saveTransactionBillingData and ends; an error is logged by the catch
ClearSaveTransactionBillingData(k) ==
    /\ purgePc = "clearTransactions"
    /\ k \in writingSessions
    /\ \E outcome \in {"saved", "error"} :
        LET id == purgeInvoices[sweep[sweepIdx]].sessions[k]
        IN  IF outcome = "saved"
              THEN /\ clearedTransactions' = clearedTransactions \cup {id}
                   /\ UNCHANGED purgeLogs
              ELSE /\ purgeLogs' = purgeLogs \cup {PurgeLog("error", "transaction", id, "failed")}
                   /\ UNCHANGED clearedTransactions
    /\ pendingSessions' = pendingSessions \ {k}
    /\ writingSessions' = writingSessions \ {k}
    /\ UNCHANGED <<purgePc, purgeInvoices, purgeInvoices0, users, users0, sweep, sweepIdx>>
    /\ UNCHANGED <<chargeVars, syncVars, notifVars, guardVars, updVars, checkVars>>

\* Lines 447 and 417-433: once every callback has ended the invoice is deleted;
\* the sweep logs the success or the failure and goes on
DeleteInvoice ==
    /\ purgePc = "clearTransactions"
    /\ pendingSessions = {}
    /\ \E outcome \in {"deleted", "error"} :
        LET id == sweep[sweepIdx]
        IN  IF outcome = "deleted"
              THEN /\ purgeInvoices' = [purgeInvoices EXCEPT ![id] = NoObject]
                   /\ purgeLogs' = purgeLogs \cup {PurgeLog("info", "invoice", id, "none")}
              ELSE /\ purgeLogs' = purgeLogs \cup {PurgeLog("error", "invoice", id, "failed")}
                   /\ UNCHANGED purgeInvoices
    /\ purgePc' = "forInvoice"
    /\ sweepIdx' = sweepIdx + 1
    /\ UNCHANGED <<purgeInvoices0, clearedTransactions, users, users0, sweep,
                   pendingSessions, writingSessions>>
    /\ UNCHANGED <<chargeVars, syncVars, notifVars, guardVars, updVars, checkVars>>

\* Lines 395-402 and 482, 509-517: the invoice sweep is over; the users are queried,
\* outside any try
GetUsersWithTestBillingData ==
    /\ purgePc = "forInvoice"
    /\ sweepIdx > Len(sweep)
    /\ \E outcome \in {"honoured", "notHonoured", "error"} :
        IF outcome = "error"
          THEN /\ purgePc' = "raised"
               /\ UNCHANGED <<sweep, sweepIdx>>
          ELSE /\ purgePc' = "forUser"
               /\ LET result == GetUsers(users, TestUsersStatuses, outcome = "honoured")
                  IN  \E count \in UserCounts(Len(result)) :
                        sweep' = UsersWithTestBillingData([count |-> count,
                                                           result |-> result])
               /\ sweepIdx' = 1
    /\ UNCHANGED <<purgeInvoices, purgeInvoices0, clearedTransactions, users, users0,
                   pendingSessions, writingSessions, purgeLogs>>
    /\ UNCHANGED <<chargeVars, syncVars, notifVars, guardVars, updVars, checkVars>>

\* Lines 484-503 and 520-531: the next user of the sweep; a live link raises,
\* else the billing data is saved as null; the sweep logs and goes on
ClearUserTestBillingData ==
    /\ purgePc = "forUser"
    /\ sweepIdx <= Len(sweep)
    /\ LET id == sweep[sweepIdx]
       IN  IF users[id].billingData # NoObject /\ users[id].billingData.liveMode
             THEN /\ purgeLogs' = purgeLogs \cup {PurgeLog("error", "user", id, "refused")}
                  /\ UNCHANGED users
             ELSE \E outcome \in {"saved", "error"} :
                    IF outcome = "saved"
                      THEN /\ users' = [users EXCEPT ![id].billingData = NoObject]
                           /\ purgeLogs' = purgeLogs \cup {PurgeLog("info", "user", id, "none")}
                      ELSE /\ purgeLogs' = purgeLogs \cup {PurgeLog("error", "user", id, "failed")}
                           /\ UNCHANGED users
    /\ sweepIdx' = sweepIdx + 1
    /\ UNCHANGED <<purgePc, purgeInvoices, purgeInvoices0, clearedTransactions, users0,
                   sweep, pendingSessions, writingSessions>>
    /\ UNCHANGED <<chargeVars, syncVars, notifVars, guardVars, updVars, checkVars>>

\* Lines 403-409: the user sweep is over
ClearTestDataReturn ==
    /\ purgePc = "forUser"
    /\ sweepIdx > Len(sweep)
    /\ purgePc' = "returned"
    /\ UNCHANGED <<purgeInvoices, purgeInvoices0, clearedTransactions, users, users0,
                   sweep, sweepIdx, pendingSessions, writingSessions, purgeLogs>>
    /\ UNCHANGED <<chargeVars, syncVars, notifVars, guardVars, updVars, checkVars>>

NextPurge ==
    \/ GetInvoicesToClear
    \/ ClearInvoiceTestData
    \/ \E k \in pendingSessions : ClearGetTransaction(k)
    \/ \E k \in writingSessions : ClearSaveTransactionBillingData(k)
    \/ DeleteInvoice
    \/ GetUsersWithTestBillingData
    \/ ClearUserTestBillingData
    \/ ClearTestDataReturn

PurgeSpec == InitPurge /\ [][NextPurge]_vars

----------------------------------------------------------------------------
(* Properties of clearTestData *)

\* The invoice sweep is over and its list is still in sweep
InvoiceSweepOver == purgePc = "forInvoice" /\ sweepIdx > Len(sweep)

\* The invoices the sweep has gone past
InvoicesPassed ==
    IF purgePc \in {"forInvoice", "clearTransactions"}
      THEN {sweep[k] : k \in 1..(sweepIdx - 1)}
      ELSE {}

LoggedAbout(about, id) == {l \in purgeLogs : l.about = about /\ l.id = id}

\* C16: the purge never deletes a live invoice: when the invoice sweep meets an
\* invoice flagged live, an error is raised for that invoice (and logged by the
\* sweep), neither the invoice nor the billing data of any of its sessions is
\* modified or deleted, and the sweep continues with the next invoice.
C16_LiveInvoiceRefused ==
    /\ \A i \in DOMAIN purgeInvoices0 :
        purgeInvoices0[i].liveMode =>
            /\ purgeInvoices[i] = purgeInvoices0[i]
            /\ \A k \in DOMAIN purgeInvoices0[i].sessions :
                    purgeInvoices0[i].sessions[k] \notin clearedTransactions
            /\ i \in InvoicesPassed =>
                    LoggedAbout("invoice", i) = {PurgeLog("error", "invoice", i, "refused")}
    /\ InvoiceSweepOver =>
        \A k \in DOMAIN sweep : sweep[k] \in InvoicesPassed /\ LoggedAbout("invoice", sweep[k]) # {}
    /\ purgePc = "raised" => sweepIdx = 0 \/ sweepIdx > Len(sweep)

\* The sweep met the live invoice 1, left it and its two transactions alone, and
\* went on to delete the test invoice 2
C16_Witness ==
    /\ InvoiceSweepOver
    /\ sweep = <<1, 2>>
    /\ purgeInvoices0[1].liveMode /\ ~purgeInvoices0[2].liveMode
    /\ purgeInvoices[1] = purgeInvoices0[1]
    /\ purgeInvoices[2] = NoObject
    /\ clearedTransactions = {3}
    /\ PurgeLog("error", "invoice", 1, "refused") \in purgeLogs

\* No call of a store has failed during the purge
NoStorageFailure == \A l \in purgeLogs : l.cause # "failed"

HasTestLink(user) == user.billingData # NoObject /\ ~user.billingData.liveMode
HasLiveLink(user) == user.billingData # NoObject /\ user.billingData.liveMode

\* C17: after clearTestData completes with no storage failure, every account that
\* carried a non-live provider link has had its link erased, and no account
\* carrying a live provider link has been modified. Violated: only the accounts
\* whose status is ACTIVE are queried, the test link of any other account stays.
C17_AccountPurgeComplete ==
    (purgePc = "returned" /\ NoStorageFailure) =>
        \A u \in DOMAIN users0 :
            /\ HasTestLink(users0[u]) => users[u].billingData = NoObject
            /\ HasLiveLink(users0[u]) => users[u] = users0[u]


----------------------------------------------------------------------------
(* checkBillTransaction: the guard run before a transaction is billed *)

\* A value JavaScript treats as false in !value: undefined, null or the empty string
MissingString(value) == value \in {Null, ""}

\* transaction.userID
BillUserIDs == {Null, "", "u1", "u2"}

\* transaction.user, with its optional billingData.customerID
BillUsers ==
    {NoObject} \cup [billingData : {NoObject} \cup [customerID : {Null, "", "cus_1", "cus_2"}]]

\* transaction.chargeBox
ChargeBoxes == {NoObject} \cup [id : {"cs1", "cs2"}]

BillTransactions == [userID : BillUserIDs, user : BillUsers, chargeBox : ChargeBoxes]

\* !transaction.user?.billingData?.customerID
MissingCustomerID(t) ==
    \/ t.user = NoObject
    \/ t.user.billingData = NoObject
    \/ MissingString(t.user.billingData.customerID)

BillCheckReturned == [raised |-> FALSE, message |-> "none"]
BackendError(message) == [raised |-> TRUE, message |-> message]

CheckBillTransaction_NoStationCheck(t) ==
    IF MissingString(t.userID) \/ t.user = NoObject
    THEN BackendError("User is not provided")
    ELSE IF MissingCustomerID(t)
    THEN BackendError("User has no Billing Data")
    ELSE BillCheckReturned

\* The outcome of checkBillTransaction(t): the three checks in the order of the code
CheckBillTransaction(t) ==
    IF MissingString(t.userID) \/ t.user = NoObject
    THEN BackendError("User is not provided")
    ELSE IF t.chargeBox = NoObject
    THEN BackendError("Charging Station is not provided")
    ELSE IF MissingCustomerID(t)
    THEN BackendError("User has no Billing Data")
    ELSE BillCheckReturned

InitBill ==
    /\ \E t \in BillTransactions :
        billCheck = [pc |-> "called", argument |-> t, transaction |-> t,
                     result |-> BillCheckReturned]
    /\ thresholdCheck = [pc |-> "idle"]
    /\ ChargeIdle /\ SyncIdle /\ NotifIdle /\ GuardIdle /\ UpdIdle /\ PurgeIdle

\* The whole call: the function only reads its argument
CallCheckBillTransaction ==
    /\ billCheck.pc = "called"
    /\ billCheck' = [billCheck EXCEPT !.pc = "done",
                                      !.result = CheckBillTransaction(billCheck.transaction)]
    /\ UNCHANGED thresholdCheck
    /\ UNCHANGED <<chargeVars, syncVars, notifVars, guardVars, updVars, purgeVars>>

NextBill == CallCheckBillTransaction

BillSpec == InitBill /\ [][NextBill]_vars

\* C21: checkBillTransaction raises a fatal error exactly when the account identity
\* (userID or user) is missing, or the charging-station reference is missing, or
\* the account has no provider customer ID; otherwise it returns normally. The
\* transaction it was given is the same after the call as before.
C21_BillGuard ==
    billCheck.pc = "done" =>
        LET t == billCheck.argument
            noIdentity == t.userID \in {Null, ""} \/ t.user = NoObject
            noStation == t.chargeBox = NoObject
            noCustomer ==
                \/ t.user = NoObject
                \/ t.user.billingData = NoObject
                \/ t.user.billingData.customerID \in {Null, ""}
        IN  /\ billCheck.result.raised <=> (noIdentity \/ noStation \/ noCustomer)
            /\ ~billCheck.result.raised => billCheck.result = BillCheckReturned
            /\ billCheck.transaction = t

\* A call that raised only because the charging-station reference is missing
C21_Witness ==
    /\ billCheck.pc = "done"
    /\ billCheck.argument.userID = "u1"
    /\ billCheck.argument.user # NoObject
    /\ ~MissingCustomerID(billCheck.argument)
    /\ billCheck.argument.chargeBox = NoObject
    /\ billCheck.result = BackendError("Charging Station is not provided")
    /\ billCheck.transaction = billCheck.argument


----------------------------------------------------------------------------
(* checkBillingDataThreshold: no billing of a suspiciously small session *)

\* The thresholds written in the condition of checkBillingDataThreshold
MinTimeSpentSeconds == 60
MinConsumptionWh == 1000

\* moment durations are held in milliseconds; asSeconds() divides by this
MillisPerSecond == 1000

\* transaction.timestamp, in milliseconds
StartInstants == {0, 5000}

\* Durations between the start and the stop (or the last consumption), in milliseconds
Durations == {30000, 59999, 60000, 120000}

\* transaction.stop.totalConsumptionWh
Consumptions == {500, 999, 1000, 1001, 2000}

\* A stopped transaction carries stop; one still running only has lastConsumption
ThresholdTransactions ==
    { [timestamp |-> start,
       stop |-> [timestamp |-> start + d, totalConsumptionWh |-> wh],
       lastConsumption |-> [timestamp |-> start + d]] :
        start \in StartInstants, d \in Durations, wh \in Consumptions }
    \cup
    { [timestamp |-> start,
       stop |-> NoObject,
       lastConsumption |-> [timestamp |-> start + d]] :
        start \in StartInstants, d \in Durations }

\* computeTimeSpentInSeconds, as the exact number of milliseconds of the duration
\* (the value returned by the code is this number divided by MillisPerSecond)
ComputeTimeSpentInMillis(t) ==
    IF t.stop = NoObject
    THEN t.lastConsumption.timestamp - t.timestamp
    ELSE t.stop.timestamp - t.timestamp

\* timeSpent < seconds, for timeSpent = millis / MillisPerSecond
LessThanSeconds(millis, seconds) == millis < seconds * MillisPerSecond

ThresholdOutcome(result, warned) == [result |-> result, warned |-> warned]

CheckBillingDataThreshold_Inclusive(developmentEnv, t) ==
    IF developmentEnv THEN ThresholdOutcome("true", FALSE)
    ELSE IF ComputeTimeSpentInMillis(t) > MinTimeSpentSeconds * MillisPerSecond
            /\ t.stop = NoObject
    THEN ThresholdOutcome("raised", FALSE)
    ELSE IF \/ ComputeTimeSpentInMillis(t) <= MinTimeSpentSeconds * MillisPerSecond
            \/ t.stop.totalConsumptionWh <= MinConsumptionWh
    THEN ThresholdOutcome("false", TRUE)
    ELSE ThresholdOutcome("true", FALSE)

CheckBillingDataThreshold_NoBypass(developmentEnv, t) ==
    IF ~LessThanSeconds(ComputeTimeSpentInMillis(t), MinTimeSpentSeconds)
            /\ t.stop = NoObject
    THEN ThresholdOutcome("raised", FALSE)
    ELSE IF \/ LessThanSeconds(ComputeTimeSpentInMillis(t), MinTimeSpentSeconds)
            \/ t.stop.totalConsumptionWh < MinConsumptionWh
    THEN ThresholdOutcome("false", TRUE)
    ELSE ThresholdOutcome("true", FALSE)

\* The outcome of checkBillingDataThreshold(t). Outside development the left
\* operand of || is evaluated first; the right one reads transaction.stop, which
\* raises a TypeError when the transaction has no stop.
CheckBillingDataThreshold(developmentEnv, t) ==
    IF developmentEnv THEN ThresholdOutcome("true", FALSE)
    ELSE IF ~LessThanSeconds(ComputeTimeSpentInMillis(t), MinTimeSpentSeconds)
            /\ t.stop = NoObject
    THEN ThresholdOutcome("raised", FALSE)
    ELSE IF \/ LessThanSeconds(ComputeTimeSpentInMillis(t), MinTimeSpentSeconds)
            \/ t.stop.totalConsumptionWh < MinConsumptionWh
    THEN ThresholdOutcome("false", TRUE)
    ELSE ThresholdOutcome("true", FALSE)

InitThreshold ==
    /\ \E developmentEnv \in BOOLEAN, t \in ThresholdTransactions :
        thresholdCheck = [pc |-> "called", developmentEnv |-> developmentEnv,
                          transaction |-> t, outcome |-> ThresholdOutcome("none", FALSE)]
    /\ billCheck = [pc |-> "idle"]
    /\ ChargeIdle /\ SyncIdle /\ NotifIdle /\ GuardIdle /\ UpdIdle /\ PurgeIdle

\* The whole call, the warning of the false branch included
CallCheckBillingDataThreshold ==
    /\ thresholdCheck.pc = "called"
    /\ thresholdCheck' =
        [thresholdCheck EXCEPT
            !.pc = "done",
            !.outcome = CheckBillingDataThreshold(thresholdCheck.developmentEnv,
                                                  thresholdCheck.transaction)]
    /\ UNCHANGED billCheck
    /\ UNCHANGED <<chargeVars, syncVars, notifVars, guardVars, updVars, purgeVars>>

NextThreshold == CallCheckBillingDataThreshold

ThresholdSpec == InitThreshold /\ [][NextThreshold]_vars

\* C22: outside the development environment checkBillingDataThreshold returns
\* false exactly when the elapsed time is below 60 seconds or the total
\* consumption of the stop is below 1000 Wh, and true otherwise (so exactly 60 s
\* with exactly 1000 Wh gives true); in the development environment it returns
\* true for every transaction. A transaction without stop has no total
\* consumption: it gets false when its elapsed time is below 60 seconds and the
\* call raises otherwise, it never gets true outside development.
C22_Threshold ==
    thresholdCheck.pc = "done" =>
        LET t == thresholdCheck.transaction
            result == thresholdCheck.outcome.result
            elapsedMillis ==
                IF t.stop = NoObject THEN t.lastConsumption.timestamp - t.timestamp
                ELSE t.stop.timestamp - t.timestamp
        IN  /\ thresholdCheck.developmentEnv => result = "true"
            /\ (~thresholdCheck.developmentEnv /\ t.stop # NoObject) =>
                /\ result \in {"true", "false"}
                /\ result = "false" <=>
                    (elapsedMillis < 60000 \/ t.stop.totalConsumptionWh < 1000)
            /\ (~thresholdCheck.developmentEnv /\ t.stop = NoObject) =>
                result = (IF elapsedMillis < 60000 THEN "false" ELSE "raised")

\* Outside development, a session of exactly 60 seconds and exactly 1000 Wh passes
C22_Witness ==
    /\ thresholdCheck.pc = "done"
    /\ ~thresholdCheck.developmentEnv
    /\ thresholdCheck.transaction.stop # NoObject
    /\ thresholdCheck.transaction.stop.timestamp - thresholdCheck.transaction.timestamp = 60000
    /\ thresholdCheck.transaction.stop.totalConsumptionWh = 1000
    /\ thresholdCheck.outcome = ThresholdOutcome("true", FALSE)


----------------------------------------------------------------------------
(* More properties of the synchronization *)

\* The number of entries of the logs that are of the given level
LogCount(level) == Cardinality({k \in DOMAIN syncLogs : syncLogs[k] = level})

\* C23: a forced synchronization that succeeded logs the success exactly once, and
\* before it one repair warning exactly when the customer ID of the result differs
\* from the one stored on the account (an account with none stored included); one
\* that failed logs neither, only the error.
C23_ForcedSyncAuditTrail ==
    (forceMode /\ syncPc = "returned") =>
        /\ LogCount("info") = (IF Raised(LastCall.outcome) THEN 0 ELSE 1)
        /\ LogCount("warning") =
            (IF ~Raised(LastCall.outcome) /\ billingUser # userCustomerID THEN 1 ELSE 0)
        /\ LogCount("warning") = 1 => syncLogs[Len(syncLogs)] = "info"
        /\ Raised(LastCall.outcome) => syncLogs = <<"error">>
        /\ ~Raised(LastCall.outcome) => LogCount("error") = 0

\* getUser found the account under another customer ID than the stored one and
\* updateUser succeeded: warning, then success
C23_Witness ==
    /\ forceMode
    /\ syncPc = "returned"
    /\ userCustomerID = "cus_1"
    /\ billingUser = "cus_2"
    /\ Ops = <<"getUser", "updateUser">>
    /\ syncLogs = <<"warning", "info">>


----------------------------------------------------------------------------
(* Termination, order and skip arithmetic of the settlement run *)

\* Some chargeInvoice call returned an invoice that is still in periodic scope
SomeStayedInScope == \E k \in DOMAIN settleLog :
    ~settleLog[k].raised /\ ~IsInvoiceOutOfPeriodicOperationScope(settleLog[k])

\* C24: the run terminates. Whatever the invoices, the page size and the outcomes
\* of the chargeInvoice calls, the run eventually ends; it ends by returning on an
\* empty page unless the connection check or a page query raised, and it makes at
\* most one page query per invoice that matched at the start, plus the last one.
C24_RunTerminates ==
    /\ <>(pc \in {"returned", "raised"})
    /\ [](pc = "returned" => page = <<>>)
    /\ [](pc = "raised" => raisedBy \in {"checkConnection", "getInvoices"})
    /\ [][nQueries' <= Cardinality(Matched0) + 1]_vars

\* A run that returned although one invoice stayed in scope and one charge failed
C24_Witness ==
    /\ pc = "returned"
    /\ page = <<>>
    /\ SomeStayedInScope
    /\ \E k \in DOMAIN settleLog : settleLog[k].raised


\* createdOn of the invoice of the k-th chargeInvoice call
SettledCreatedOn(k) == invoices0[settleLog[k].id].createdOn

\* C25: oldest first. Over the whole run, all pages and skip compensations
\* included, the chargeInvoice calls are made in non-decreasing order of
\* createdOn: no invoice is charged before an older one.
C25_OldestFirst ==
    \A k \in DOMAIN settleLog : \A l \in DOMAIN settleLog :
        k < l => SettledCreatedOn(k) <= SettledCreatedOn(l)

\* Page size 1, three invoices, the last one created after the other two; the
\* first two left the scope (two compensations), and the charges came oldest first
C25_Witness ==
    /\ pc = "returned"
    /\ limit = 1
    /\ SettledIds = <<1, 2, 3>>
    /\ compLog = <<1, 2>>
    /\ SettledCreatedOn(1) <= SettledCreatedOn(2)
    /\ SettledCreatedOn(2) < SettledCreatedOn(3)

\* The visited invoices that match the query filter now
VisitedStillMatching == {i \in Visited : MatchesFilter(invoices[i])}

\* The part of skip += limit that no fetched invoice stands for: the places the
\* pages fetched so far left empty
UnfilledPlaces == limit * NonEmptyPages - Len(fetchedIds)

\* The chargeInvoice calls that raised after taking the invoice out of the filter
RaisedOutOfFilter == {k \in DOMAIN settleLog :
    settleLog[k].raised /\ settleLog[k].status \notin InvoiceStatusFilter}

\* C28 as the specification states it: at every page query, skip is the number
\* of invoices visited so far that still match the filter.
C28_Original_SkipEqualsVisitedMatching ==
    pc = "getInvoices" => skip = Cardinality(VisitedStillMatching)

\* C28: skip goes up by limit once per non-empty page, before the compensations
\* of that page; the values handed to the page queries are never negative and
\* never go down; and at every page query skip is the number of invoices visited
\* so far that still match the filter, plus the places the last page left empty,
\* plus the number of charges that raised after taking their invoice out of the
\* filter. So skip is never below that number, and equal to it as long as every
\* page was full and no such charge raised.
C28_SkipCounter ==
    pc \in {"getInvoices", "forInvoice", "returned"} =>
        /\ \A k \in DOMAIN skipLog : skipLog[k] >= 0
        /\ \A k \in 1..(Len(skipLog) - 1) : skipLog[k] <= skipLog[k + 1]
        /\ (pc = "forInvoice" /\ idx = 1) =>
                /\ skip = skipLog[Len(skipLog)] + limit
                /\ Len(compLog) = Cardinality(OutOfScopeReturns)
        /\ pc = "getInvoices" =>
                /\ skip = Cardinality(VisitedStillMatching) + UnfilledPlaces
                            + Cardinality(RaisedOutOfFilter)
                /\ skip >= Cardinality(VisitedStillMatching)
                /\ (UnfilledPlaces = 0 /\ RaisedOutOfFilter = {}) =>
                        skip = Cardinality(VisitedStillMatching)

\* Before the third page query of a run of page size 2: the first page was full,
\* one of its invoices left the scope, the second page held one invoice only
C28_Witness ==
    /\ pc = "getInvoices"
    /\ limit = 2
    /\ skipLog = <<0, 1>>
    /\ fetchedIds = <<1, 2, 3>>
    /\ skip = 3
    /\ Cardinality(VisitedStillMatching) = 2
    /\ UnfilledPlaces = 1

\* C29: at most once. Within one run chargeInvoice is called at most once for an
\* invoice, whatever the page size and however many invoices of a page left the
\* scope.
C29_SettledAtMostOnce ==
    \A k \in DOMAIN settleLog : \A l \in DOMAIN settleLog :
        settleLog[k].id = settleLog[l].id => k = l

\* Page size 2: one invoice of the first page left the scope and the other
\* stayed; the run went on to the third invoice and charged each of them once
C29_Witness ==
    /\ pc = "returned"
    /\ limit = 2
    /\ compLog = <<1>>
    /\ SomeStayedInScope
    /\ SettledIds = <<1, 2, 3>>

\* C30: a chargeInvoice call that raises makes the run miss no other invoice:
\* also when it raised after taking the stored status out of scope, the run that
\* returns has visited every invoice that matched the filter at the start.
\* Violated: nothing compensates skip for that invoice, and the next page starts
\* one invoice too far.
C30_FailingSettleMissesNothing ==
    (pc = "returned" /\ DirtyRaise) => Matched0 \subseteq Visited


----------------------------------------------------------------------------
(* More properties of the purge *)

\* The invoices the purge has deleted
DeletedInvoices == {i \in DOMAIN purgeInvoices : purgeInvoices[i] = NoObject}

\* The transactions the sessions of invoice i refer to
SessionTransactions(i) ==
    {purgeInvoices0[i].sessions[k] : k \in DOMAIN purgeInvoices0[i].sessions}

\* C26: when clearTestData has deleted an invoice, every transaction its sessions
\* refer to has had its billing data reset, whatever the outcomes of the reads
\* and writes of the per-session callbacks. Violated: a callback whose read or
\* write failed only logs, and the invoice is deleted all the same.
C26_ResetBeforeDeletion ==
    \A i \in DeletedInvoices : SessionTransactions(i) \subseteq clearedTransactions


----------------------------------------------------------------------------
(* More properties of updateTransactionsBillingData *)

\* Some callback for transaction id has saved its billing data
SavedBySomeTask(id) ==
    \E k \in DOMAIN taskPc : updInvoice.sessions[k] = id /\ taskPc[k] = "saved"

\* C27: the per-session callbacks run concurrently. In every interleaving the
\* function returns only once every callback has ended (saved, nothing to update,
\* or failed); a callback fails only by an error of its own store call, which is
\* logged and never raised to the caller; and the stored billing data at the
\* return is decided by the outcomes of the callbacks alone, not by their order:
\* a transaction carries the status and number of the invoice exactly when some
\* callback for it saved, and is as it was before otherwise.
C27_ConcurrentUpdates ==
    /\ updInvoice.sessionsDefined => updPc # "raised"
    /\ \A k \in DOMAIN taskPc :
        taskPc[k] = "failed" => updInvoice.sessions[k] \in updLogs
    /\ updPc = "returned" =>
        /\ \A k \in DOMAIN updInvoice.sessions : taskPc[k] \in TaskEnded
        /\ \A id \in TransactionIDs :
            IF SavedBySomeTask(id)
            THEN /\ HasBillingDataStop(transactions[id])
                 /\ Mirrors(transactions[id], updInvoice)
                 /\ transactions[id].billingData.lastUpdate = "new"
            ELSE transactions[id] \in StoredTransactions

\* Two sessions on two billed transactions: the callback of the first failed, the
\* one of the second saved, and the function returned
C27_Witness ==
    /\ updPc = "returned"
    /\ updInvoice.sessions = <<1, 2>>
    /\ updInvoice.status = PAID
    /\ taskPc = <<"failed", "saved">>
    /\ updLogs = {1}
    /\ transactions[1] = [billingData |-> [stop |-> InitialStop, lastUpdate |-> "old"]]
    /\ Mirrors(transactions[2], updInvoice)


====
